---- MODULE Spec2Model ----
(***************************************************************************)
(* Model of @rix1/table-sort (src/mod.ts): a delegated click listener that *)
(* sorts the rows of a marked table by the column key of the clicked       *)
(* header, keeps the sort state in two attributes of the table and shows   *)
(* it as a glyph at the end of the active header's text.                   *)
(*                                                                         *)
(* The page is a tree of nodes.  Texts and raw cell values are sequences   *)
(* of character tokens ("SP" is a space, "DOWN" and "UP" the two glyphs).  *)
(***************************************************************************)
EXTENDS Integers, Sequences, FiniteSets, TLC

\* ------------------------------------------------------------------ bounds
MaxClicks == 3
MaxListeners == 2

\* ------------------------------------------------------------- page nodes
None == "none"

Tables == {"T1", "T2", "T3"}
Bodies == {"B1", "B2"}
Headers == {"h0", "hP1", "hN1", "hP2", "hP3"}
Rows == {"r1", "r2", "r3", "r4", "r5", "r6"}
PriceCells == {"cP1", "cP2", "cP3", "cP4", "cP5", "cP6"}
NameCells == {"cN1", "cN2", "cN3", "cN4"}
PlainCells == {"d1"}
Cells == PriceCells \cup NameCells \cup PlainCells
\* elements inside a header (the <pre> of the documented markup)
Pres == {"pre1"}
Nodes ==
  {"root"} \cup Tables \cup Bodies \cup Headers \cup Rows \cup Cells \cup Pres

\* value of the data-sort-header attribute of a header
HeaderKey(h) == IF h = "hN1" THEN "name" ELSE "price"

\* value of the data-sort-label attribute of a cell (None: no attribute)
CellLabel(c) ==
  IF c \in PriceCells THEN "price" ELSE IF c \in NameCells THEN "name" ELSE None

Keys == {"price", "name"}

VARIABLES
  children,    \* node -> sequence of its child nodes, in document order
  hidden,      \* the rows that carry the class panel-hidden
  cellValue,   \* cell -> its data-sort-value attribute ([has |-> FALSE]: none)
  sortedBy,    \* table -> its data-sorted-by-label attribute, or None
  sortOrder,   \* table -> its data-sort-order attribute, or None
  text,        \* header -> the text it holds
  whiteSpace,  \* the white-space style of the headers: "normal" or "pre"
  listeners,   \* number of click listeners installed on the document
  nClicks,     \* number of clicks dispatched so far
  last,        \* the last click: its target and one record per listener run
  cycle        \* table -> the run of clicks on one header since the start

vars == <<children, hidden, cellValue, sortedBy, sortOrder, text, whiteSpace,
          listeners, nClicks, last, cycle>>

\* ---------------------------------------------------------- DOM operations
Range(s) == {s[i] : i \in 1..Len(s)}

RECURSIVE Subtree(_, _), Forest(_, _)
\* the node n and its descendants, in document order
Subtree(ch, n) == <<n>> \o Forest(ch, ch[n])
Forest(ch, ns) ==
  IF ns = <<>> THEN <<>> ELSE Subtree(ch, Head(ns)) \o Forest(ch, Tail(ns))

\* Element.querySelectorAll: the descendants of n that are in S
querySelectorAll(ch, n, S) ==
  SelectSeq(Tail(Subtree(ch, n)), LAMBDA x : x \in S)

\* Element.querySelector: the first such descendant, or None (null)
querySelector(ch, n, S) ==
  LET all == querySelectorAll(ch, n, S)
  IN  IF all = <<>> THEN None ELSE all[1]

Parent(ch, n) ==
  IF \E p \in Nodes : n \in Range(ch[p])
  THEN CHOOSE p \in Nodes : n \in Range(ch[p])
  ELSE None

RECURSIVE closest(_, _)
\* Element.closest("[data-sort-table]"): n or its nearest marked ancestor
closest(ch, n) ==
  IF n = None THEN None
  ELSE IF n \in Tables THEN n
  ELSE closest(ch, Parent(ch, n))

\* Node.appendChild: a node already in the tree is moved
appendChild(ch, parent, node) ==
  LET p == Parent(ch, node)
      removed ==
        IF p = None THEN ch
        ELSE [ch EXCEPT ![p] = SelectSeq(@, LAMBDA x : x # node)]
  IN  [removed EXCEPT ![parent] = Append(@, node)]

RECURSIVE appendAll(_, _, _)
appendAll(ch, parent, nodes) ==
  IF nodes = <<>> THEN ch
  ELSE appendAll(appendChild(ch, parent, Head(nodes)), parent, Tail(nodes))

\* --------------------------------------------------- values and comparator
Digits == {"0", "1", "2"}
DigitVal(c) == IF c = "0" THEN 0 ELSE IF c = "1" THEN 1 ELSE 2

NumV(n) == [t |-> "num", n |-> n, s |-> <<>>]
StrV(s) == [t |-> "str", n |-> 0, s |-> s]
NullV == [t |-> "null", n |-> 0, s |-> <<>>]

RECURSIVE TrimLeft(_)
TrimLeft(s) == IF s # <<>> /\ Head(s) = "SP" THEN TrimLeft(Tail(s)) ELSE s
RECURSIVE TrimRight(_)
TrimRight(s) ==
  IF s # <<>> /\ s[Len(s)] = "SP"
  THEN TrimRight(SubSeq(s, 1, Len(s) - 1)) ELSE s

RECURSIVE DecimalValue(_)
DecimalValue(ds) ==
  IF ds = <<>> THEN 0
  ELSE 10 * DecimalValue(SubSeq(ds, 1, Len(ds) - 1)) + DigitVal(ds[Len(ds)])

\* Number(string): white space is trimmed, the empty string is 0, an
\* optionally signed run of decimal digits is its value, anything else NaN
StringToNumber(s) ==
  LET t == TrimRight(TrimLeft(s))
      signed == t # <<>> /\ Head(t) = "-"
      ds == IF signed THEN Tail(t) ELSE t
  IN  IF t = <<>> THEN [nan |-> FALSE, n |-> 0]
      ELSE IF ds # <<>> /\ \A i \in 1..Len(ds) : ds[i] \in Digits
      THEN [nan |-> FALSE,
            n |-> IF signed THEN 0 - DecimalValue(ds) ELSE DecimalValue(ds)]
      ELSE [nan |-> TRUE, n |-> 0]

\* Number(value) for the values getValueFromRow returns
Number(v) ==
  IF v.t = "str" THEN StringToNumber(v.s) ELSE [nan |-> FALSE, n |-> v.n]

\* mutant: only null counts (value === null)
FalsyNullOnly(v) == v.t = "null"

\* !value
Falsy(v) ==
  \/ v.t = "null"
  \/ v.t = "num" /\ v.n = 0
  \/ v.t = "str" /\ v.s = <<>>

\* collation of the character tokens: primary weight, then lower before upper
Primary(c) ==
  IF c = "SP" THEN 0 ELSE IF c = "-" THEN 1
  ELSE IF c \in Digits THEN 2 + DigitVal(c)
  ELSE IF c \in {"a", "A"} THEN 5 ELSE 6
Tertiary(c) == IF c \in {"A", "B"} THEN 1 ELSE 0

RECURSIVE LexCompare(_, _)
LexCompare(x, y) ==
  IF x = <<>> /\ y = <<>> THEN 0
  ELSE IF x = <<>> THEN -1
  ELSE IF y = <<>> THEN 1
  ELSE IF Head(x) < Head(y) THEN -1
  ELSE IF Head(x) > Head(y) THEN 1
  ELSE LexCompare(Tail(x), Tail(y))

\* String.prototype.localeCompare
localeCompare(a, b) ==
  LET p == LexCompare([i \in 1..Len(a) |-> Primary(a[i])],
                      [i \in 1..Len(b) |-> Primary(b[i])])
  IN  IF p # 0 THEN p
      ELSE LexCompare([i \in 1..Len(a) |-> Tertiary(a[i])],
                      [i \in 1..Len(b) |-> Tertiary(b[i])])

\* getValueFromRow: 0 without a matching cell, else the cell's raw value
getValueFromRow(ch, cv, row, sortLabel) ==
  LET cell == querySelector(ch, row, {c \in Cells : CellLabel(c) = sortLabel})
  IN  IF cell = None THEN NumV(0)
      ELSE IF cv[cell].has THEN StrV(cv[cell].s) ELSE NullV

\* mutant: no numeric coercion
SortValueRaw(v) == v

\* isNaN(Number(v)) ? v : Number(v)
SortValue(v) == IF Number(v).nan THEN v ELSE NumV(Number(v).n)

\* mutant: the numeric branch does not swap its operands for desc
comparePresentUnswapped(aSortValue, bSortValue, order) ==
  IF aSortValue.t = "str" /\ bSortValue.t = "str"
  THEN IF order = "asc"
       THEN localeCompare(aSortValue.s, bSortValue.s)
       ELSE localeCompare(bSortValue.s, aSortValue.s)
  ELSE IF aSortValue.t = "num" /\ bSortValue.t = "num"
  THEN aSortValue.n - bSortValue.n
  ELSE 0

\* the comparison of two present values, after coercion
comparePresent(aSortValue, bSortValue, order) ==
  IF aSortValue.t = "str" /\ bSortValue.t = "str"
  THEN IF order = "asc"
       THEN localeCompare(aSortValue.s, bSortValue.s)
       ELSE localeCompare(bSortValue.s, aSortValue.s)
  ELSE IF aSortValue.t = "num" /\ bSortValue.t = "num"
  THEN IF order = "asc"
       THEN aSortValue.n - bSortValue.n
       ELSE bSortValue.n - aSortValue.n
  ELSE 0

\* the comparator handed to Array.prototype.sort
compare(aValue, bValue, order) ==
  IF Falsy(aValue) /\ Falsy(bValue) THEN 0
  ELSE IF Falsy(aValue) THEN 1
  ELSE IF Falsy(bValue) THEN -1
  ELSE comparePresent(SortValue(aValue), SortValue(bValue), order)

\* ------------------------------------------------- Array.prototype.sort
\* The engines sort with a stable algorithm; which one is not fixed, and
\* the result depends on it when the comparator is not a consistent order.
SortAlgorithms == {"merge", "timsort"}

RECURSIVE Merge(_, _, _)
Merge(x, y, cm) ==
  IF x = <<>> THEN y
  ELSE IF y = <<>> THEN x
  ELSE IF cm[Head(x), Head(y)] <= 0
  THEN <<Head(x)>> \o Merge(Tail(x), y, cm)
  ELSE <<Head(y)>> \o Merge(x, Tail(y), cm)

RECURSIVE MergeSort(_, _)
MergeSort(a, cm) ==
  IF Len(a) <= 1 THEN a
  ELSE LET mid == Len(a) \div 2
       IN  Merge(MergeSort(SubSeq(a, 1, mid), cm),
                 MergeSort(SubSeq(a, mid + 1, Len(a)), cm), cm)

Reverse(a) == [i \in 1..Len(a) |-> a[Len(a) + 1 - i]]

RECURSIVE RunEnd(_, _, _, _)
\* last index of the run that starts at 1 and reaches at least idx
RunEnd(a, idx, descending, cm) ==
  IF idx = Len(a) THEN idx
  ELSE LET o == cm[a[idx + 1], a[idx]]
       IN  IF (descending /\ o >= 0) \/ (~descending /\ o < 0) THEN idx
           ELSE RunEnd(a, idx + 1, descending, cm)

RECURSIVE BinarySearch(_, _, _, _, _)
\* a[left .. right-1] is sorted; where the pivot goes
BinarySearch(a, pivot, left, right, cm) ==
  IF left >= right THEN left
  ELSE LET mid == left + ((right - left) \div 2)
       IN  IF cm[pivot, a[mid]] < 0
           THEN BinarySearch(a, pivot, left, mid, cm)
           ELSE BinarySearch(a, pivot, mid + 1, right, cm)

RECURSIVE BinaryInsertionSort(_, _, _)
\* a[1 .. start-1] is sorted; insert a[start], a[start+1], ...
BinaryInsertionSort(a, start, cm) ==
  IF start > Len(a) THEN a
  ELSE LET pivot == a[start]
           pos == BinarySearch(a, pivot, 1, start, cm)
           moved == SubSeq(a, 1, pos - 1) \o <<pivot>>
                    \o SubSeq(a, pos, start - 1)
                    \o SubSeq(a, start + 1, Len(a))
       IN  BinaryInsertionSort(moved, start + 1, cm)

\* a short array: find the initial run, reverse it when it descends, and
\* insert the rest by binary search
TimSort(a, cm) ==
  IF Len(a) < 2 THEN a
  ELSE LET descending == cm[a[2], a[1]] < 0
           run == RunEnd(a, 2, descending, cm)
           ascending ==
             IF descending
             THEN Reverse(SubSeq(a, 1, run)) \o SubSeq(a, run + 1, Len(a))
             ELSE a
       IN  BinaryInsertionSort(ascending, run + 1, cm)

\* rows.sort(comparator), vals[r] being getValueFromRow(r, sortLabel)
sortRows(rows, vals, order, alg) ==
  LET cm == [a \in Range(rows), b \in Range(rows) |->
               compare(vals[a], vals[b], order)]
  IN  IF alg = "merge" THEN MergeSort(rows, cm) ELSE TimSort(rows, cm)

\* ------------------------------------------------------------ header text
Glyphs == {"DOWN", "UP"}

RECURSIVE CollapseSpaces(_)
\* runs of spaces become one space
CollapseSpaces(s) ==
  IF Len(s) < 2 THEN s
  ELSE IF s[1] = "SP" /\ s[2] = "SP" THEN CollapseSpaces(Tail(s))
  ELSE <<s[1]>> \o CollapseSpaces(Tail(s))

\* the innerText getter: the text as rendered.  Under white-space: normal
\* runs of spaces collapse and the spaces at both ends of the line go;
\* under white-space: pre the text is read as held.
innerText(s, ws) ==
  IF ws = "pre" THEN s ELSE CollapseSpaces(TrimRight(TrimLeft(s)))

\* text.replace(/(DOWN|UP)$/, "")
StripGlyph(s) ==
  IF s # <<>> /\ s[Len(s)] \in Glyphs THEN SubSeq(s, 1, Len(s) - 1) ELSE s

\* mutant: the old glyph is not stripped
updateSortIndicatorsNoStrip(ch, tx, ws, table, sortLabel, order) ==
  LET headers == Range(querySelectorAll(ch, table, Headers))
      icon == IF order = "asc" THEN <<"SP", "DOWN">> ELSE <<"SP", "UP">>
  IN  [h \in Headers |->
         IF h \in headers
         THEN innerText(tx[h], ws)
              \o (IF HeaderKey(h) = sortLabel THEN icon ELSE <<>>)
         ELSE tx[h]]

\* updateSortIndicators: every header below the table is rewritten
updateSortIndicators(ch, tx, ws, table, sortLabel, order) ==
  LET headers == Range(querySelectorAll(ch, table, Headers))
      icon == IF order = "asc" THEN <<"SP", "DOWN">> ELSE <<"SP", "UP">>
  IN  [h \in Headers |->
         IF h \in headers
         THEN StripGlyph(innerText(tx[h], ws))
              \o (IF HeaderKey(h) = sortLabel THEN icon ELSE <<>>)
         ELSE tx[h]]

\* the innerText setter: the children of every rewritten header are
\* replaced by the one text
replaceChildren(ch, table) ==
  LET headers == Range(querySelectorAll(ch, table, Headers))
  IN  [n \in Nodes |-> IF n \in headers THEN <<>> ELSE ch[n]]

\* ------------------------------------------------------------ the handler
NoVals == [r \in {} |-> NullV]

\* mutants of the toggle rule: the key is not compared; the order is not
newSortOrderAnyKey(previouslySortedByLabel, prevSortOrder, sortLabel) ==
  IF prevSortOrder = "asc" THEN "desc" ELSE "asc"
newSortOrderSticky(previouslySortedByLabel, prevSortOrder, sortLabel) ==
  IF previouslySortedByLabel = sortLabel THEN "desc" ELSE "asc"

\* the toggle rule of sortTableBy
newSortOrder(previouslySortedByLabel, prevSortOrder, sortLabel) ==
  IF previouslySortedByLabel = sortLabel /\ prevSortOrder = "asc"
  THEN "desc" ELSE "asc"

\* mutant: the sorted key is not written
commitOrderOnly(st, table, sortLabel, order) ==
  [st EXCEPT !.ord[table] = order]

\* the two setAttribute calls of sortTableBy
commitState(st, table, sortLabel, order) ==
  [st EXCEPT !.ord[table] = order, !.by[table] = sortLabel]

\* mutant: hidden rows are collected too
collectRowsAll(st, tbody) == querySelectorAll(st.ch, tbody, Rows)

\* the rows sortTableBy collects: tbody.querySelectorAll("tr:not(.panel-hidden)")
collectRows(st, tbody) == querySelectorAll(st.ch, tbody, Rows \ st.hid)

\* what one run of sortTableBy did
Run(threw, table, key, prevBy, prevOrder, order, steps, rows, sorted, vals) ==
  [threw |-> threw, table |-> table, key |-> key, prevBy |-> prevBy,
   prevOrder |-> prevOrder, order |-> order, steps |-> steps, rows |-> rows,
   sorted |-> sorted, vals |-> vals]

\* mutant: the indicators are refreshed after the rows are re-appended
sortTableByIndicatorsLast(st, table, sortLabel, alg) ==
  IF table = None
  THEN [st |-> st,
        run |-> Run(TRUE, None, sortLabel, None, None, None, <<>>, <<>>,
                    <<>>, NoVals)]
  ELSE
    LET order == newSortOrder(st.by[table], st.ord[table], sortLabel)
        st1 == commitState(st, table, sortLabel, order)
        tbody == querySelector(st1.ch, table, Bodies)
    IN  IF tbody = None
        THEN [st |-> st1,
              run |-> Run(TRUE, table, sortLabel, st.by[table], st.ord[table],
                          order, <<"state">>, <<>>, <<>>, NoVals)]
        ELSE
          LET rows == collectRows(st1, tbody)
              vals == [r \in Range(rows) |->
                         getValueFromRow(st1.ch, st1.cv, r, sortLabel)]
              sortedRows == sortRows(rows, vals, order, alg)
              ch2 == appendAll(st1.ch, tbody, sortedRows)
          IN  [st |-> [st1 EXCEPT
                         !.ch = replaceChildren(ch2, table),
                         !.tx = updateSortIndicators(ch2, st1.tx, st1.ws,
                                                     table, sortLabel, order)],
               run |-> Run(FALSE, table, sortLabel, st.by[table],
                           st.ord[table], order,
                           <<"state", "sort", "append", "indicators">>,
                           rows, sortedRows, vals)]

\* mutant: the body is looked up before the state is written
sortTableByBodyFirst(st, table, sortLabel, alg) ==
  IF table = None
  THEN [st |-> st,
        run |-> Run(TRUE, None, sortLabel, None, None, None, <<>>, <<>>,
                    <<>>, NoVals)]
  ELSE
    LET order == newSortOrder(st.by[table], st.ord[table], sortLabel)
        tbody == querySelector(st.ch, table, Bodies)
    IN  IF tbody = None
        THEN [st |-> st,
              run |-> Run(TRUE, table, sortLabel, st.by[table], st.ord[table],
                          order, <<>>, <<>>, <<>>, NoVals)]
        ELSE
          LET st1 == commitState(st, table, sortLabel, order)
              st2 == [st1 EXCEPT !.tx = updateSortIndicators(
                        st1.ch, st1.tx, st1.ws, table, sortLabel, order),
                                 !.ch = replaceChildren(st1.ch, table)]
              rows == collectRows(st2, tbody)
              vals == [r \in Range(rows) |->
                         getValueFromRow(st2.ch, st2.cv, r, sortLabel)]
              sortedRows == sortRows(rows, vals, order, alg)
          IN  [st |-> [st2 EXCEPT !.ch = appendAll(st2.ch, tbody, sortedRows)],
               run |-> Run(FALSE, table, sortLabel, st.by[table],
                           st.ord[table], order,
                           <<"state", "indicators", "sort", "append">>,
                           rows, sortedRows, vals)]

\* sortTableBy on the page st = [ch, hid, cv, by, ord, tx, ws]; the result is
\* the page it leaves and a record of the run.  A null table throws at the
\* first getAttribute, a missing tbody throws after the indicators are
\* updated.
sortTableBy(st, table, sortLabel, alg) ==
  IF table = None
  THEN [st |-> st,
        run |-> Run(TRUE, None, sortLabel, None, None, None, <<>>, <<>>,
                    <<>>, NoVals)]
  ELSE
    LET previouslySortedByLabel == st.by[table]
        prevSortOrder == st.ord[table]
        order == newSortOrder(previouslySortedByLabel, prevSortOrder,
                              sortLabel)
        st1 == commitState(st, table, sortLabel, order)
        st2 == [st1 EXCEPT !.tx = updateSortIndicators(st1.ch, st1.tx, st1.ws,
                                                       table, sortLabel,
                                                       order),
                           !.ch = replaceChildren(st1.ch, table)]
        tbody == querySelector(st2.ch, table, Bodies)
    IN  IF tbody = None
        THEN [st |-> st2,
              run |-> Run(TRUE, table, sortLabel, previouslySortedByLabel,
                          prevSortOrder, order, <<"state", "indicators">>,
                          <<>>, <<>>, NoVals)]
        ELSE
          LET rows == collectRows(st2, tbody)
              vals == [r \in Range(rows) |->
                         getValueFromRow(st2.ch, st2.cv, r, sortLabel)]
              sortedRows == sortRows(rows, vals, order, alg)
          IN  [st |-> [st2 EXCEPT !.ch = appendAll(st2.ch, tbody, sortedRows)],
               run |-> Run(FALSE, table, sortLabel, previouslySortedByLabel,
                           prevSortOrder, order,
                           <<"state", "indicators", "sort", "append">>,
                           rows, sortedRows, vals)]

\* sortTableHeaderClick: resolve the table and the key of the clicked header
sortTableHeaderClick(st, target, alg) ==
  sortTableBy(st, closest(st.ch, target), HeaderKey(target), alg)

\* ------------------------------------------------------------- the pages
Val(s) == [has |-> TRUE, s |-> s]
NoAttr == [has |-> FALSE, s |-> <<>>]
NoCell == [cell |-> FALSE, v |-> NoAttr]
WithCell(v) == [cell |-> TRUE, v |-> v]

PriceCellOf == [r \in Rows |-> CHOOSE c \in PriceCells :
                  \E i \in {"1", "2", "3", "4", "5", "6"} :
                    r = "r" \o i /\ c = "cP" \o i]
NameCellOf == [r \in {"r1", "r2", "r3", "r4"} |-> CHOOSE c \in NameCells :
                 \E i \in {"1", "2", "3", "4"} : r = "r" \o i /\ c = "cN" \o i]

\* what a row may carry for the key "price"
PriceChoices ==
  {NoCell, WithCell(Val(<<>>)), WithCell(Val(<<"2">>)),
   WithCell(Val(<<"1", "0">>)), WithCell(Val(<<"a">>))}

NameValue == [c \in NameCells |->
  IF c = "cN1" THEN Val(<<"b">>) ELSE IF c = "cN2" THEN Val(<<"a">>)
  ELSE IF c = "cN3" THEN Val(<<"B">>) ELSE Val(<<"a", "b">>)]

NoState == [t \in Tables |-> None]
NoCycle == [t \in Tables |-> [hdr |-> None, n |-> 0, ok |-> TRUE]]
NoClick == [target |-> None, runs |-> <<>>]

\* one table with four rows: the price cells of the first three vary, the
\* fourth holds "0"; no row, one row or two rows are hidden
InitFlat ==
  \E pc \in [{"r1", "r2", "r3"} -> PriceChoices] :
  \E hid \in {{}, {"r2"}, {"r1", "r3"}} :
    LET choice == [r \in {"r1", "r2", "r3", "r4"} |->
                     IF r = "r4" THEN WithCell(Val(<<"0">>)) ELSE pc[r]]
    IN
    /\ \A r \in hid : pc[r] = NoCell
    /\ children = [n \in Nodes |->
         IF n = "root" THEN <<"T1">>
         ELSE IF n = "T1" THEN <<"hP1", "hN1", "B1">>
         ELSE IF n = "B1" THEN <<"r1", "r2", "r3", "r4">>
         ELSE IF n \in {"r1", "r2", "r3", "r4"}
         THEN (IF choice[n].cell THEN <<PriceCellOf[n]>> ELSE <<>>)
              \o <<NameCellOf[n]>>
         ELSE <<>>]
    /\ hidden = hid
    /\ cellValue = [c \in Cells |->
         IF c \in NameCells THEN NameValue[c]
         ELSE IF \E r \in {"r1", "r2", "r3", "r4"} : PriceCellOf[r] = c
         THEN choice[CHOOSE r \in {"r1", "r2", "r3", "r4"} :
                       PriceCellOf[r] = c].v
         ELSE NoAttr]
    /\ text = [h \in Headers |-> IF h = "hN1" THEN <<"N">> ELSE <<"P">>]
    /\ whiteSpace = "normal"

\* a header outside any table, a table without a body, and a second table
\* that is either a sibling of the first or nested in a cell of its first
\* row and whose header holds its text in an element of its own
InitMulti ==
  \E nested \in BOOLEAN :
  \E p1 \in {NoCell, WithCell(NoAttr), WithCell(Val(<<"2">>))} :
  \E ws \in {"normal", "pre"} :
    /\ children = [n \in Nodes |->
         IF n = "root"
         THEN <<"h0", "T1", "T3">> \o (IF nested THEN <<>> ELSE <<"T2">>)
         ELSE IF n = "T1" THEN <<"hP1", "hN1", "B1">>
         ELSE IF n = "B1" THEN <<"r1", "r2">>
         ELSE IF n = "r1"
         THEN (IF p1.cell THEN <<"cP1">> ELSE <<>>) \o <<"cN1", "d1">>
         ELSE IF n = "r2" THEN <<"cP2", "cN2">>
         ELSE IF n = "d1" THEN (IF nested THEN <<"T2">> ELSE <<>>)
         ELSE IF n = "T2" THEN <<"hP2", "B2">>
         ELSE IF n = "hP2" THEN <<"pre1">>
         ELSE IF n = "B2" THEN <<"r5", "r6">>
         ELSE IF n = "r5" THEN <<"cP5">>
         ELSE IF n = "r6" THEN <<"cP6">>
         ELSE IF n = "T3" THEN <<"hP3">>
         ELSE <<>>]
    /\ hidden = {}
    /\ cellValue = [c \in Cells |->
         IF c \in NameCells THEN NameValue[c]
         ELSE IF c = "cP1" THEN p1.v
         ELSE IF c = "cP2" THEN Val(<<"1">>)
         ELSE IF c = "cP5" THEN Val(<<"1", "0">>)
         ELSE IF c = "cP6" THEN Val(<<"2">>)
         ELSE NoAttr]
    /\ text = [h \in Headers |->
         IF h = "hN1" THEN <<"N", "SP", "UP">> ELSE <<"P">>]
    /\ whiteSpace = ws

Fresh ==
  /\ sortedBy = NoState
  /\ sortOrder = NoState
  /\ listeners = 0
  /\ nClicks = 0
  /\ last = NoClick
  /\ cycle = NoCycle

\* ------------------------------------------------------------ the actions
\* initTableSortable: one more listener on the document, no guard against
\* repetition.  The page calls it while it loads (on DOMContentLoaded), so
\* before the first click is dispatched.
initTableSortable ==
  /\ nClicks = 0
  /\ listeners < MaxListeners
  /\ listeners' = listeners + 1
  /\ UNCHANGED <<children, hidden, cellValue, sortedBy, sortOrder, text,
                 whiteSpace, nClicks, last, cycle>>

Page == [ch |-> children, hid |-> hidden, cv |-> cellValue,
         by |-> sortedBy, ord |-> sortOrder, tx |-> text, ws |-> whiteSpace]

\* mutant: a click is handled once, however many listeners there are
DispatchOnce(st, runs, k, target, alg) ==
  IF k = 0 \/ target \notin Headers THEN [st |-> st, runs |-> runs]
  ELSE LET r == sortTableHeaderClick(st, target, alg)
       IN  [st |-> r.st, runs |-> Append(runs, r.run)]

RECURSIVE Dispatch(_, _, _, _, _)
\* mutant: the listener looks for the nearest header around the target
DispatchClosest(st, runs, k, target, alg) ==
  LET header == IF target \in Headers THEN target ELSE Parent(st.ch, target)
  IN  IF k = 0 \/ header \notin Headers THEN [st |-> st, runs |-> runs]
      ELSE LET r == sortTableHeaderClick(st, header, alg)
           IN  Dispatch(r.st, Append(runs, r.run), k - 1, target, alg)

\* the k listeners that are still to run, each with the listener's test
\* target.matches("[data-sort-header]"); an exception thrown by one
\* listener does not keep the next one from running
Dispatch(st, runs, k, target, alg) ==
  IF k = 0 THEN [st |-> st, runs |-> runs]
  ELSE IF target \in Headers
  THEN LET r == sortTableHeaderClick(st, target, alg)
       IN  Dispatch(r.st, Append(runs, r.run), k - 1, target, alg)
  ELSE Dispatch(st, runs, k - 1, target, alg)

Attached == Range(Subtree(children, "root"))
Targets == (Headers \cup PlainCells \cup Pres) \cap Attached

nextCycle(target) ==
  LET t == closest(children, target)
      c == cycle[t]
  IN  IF target \notin Headers \/ t = None THEN cycle
      ELSE [cycle EXCEPT ![t] =
              IF c.n = 0
              THEN [hdr |-> target, n |-> 1, ok |-> listeners = 1]
              ELSE [hdr |-> c.hdr, n |-> c.n + 1,
                    ok |-> c.ok /\ c.hdr = target /\ listeners = 1]]

\* a click on an element of the page
Click(target, alg) ==
  /\ listeners >= 1
  /\ nClicks < MaxClicks
  /\ LET d == Dispatch(Page, <<>>, listeners, target, alg)
     IN  /\ children' = d.st.ch
         /\ sortedBy' = d.st.by
         /\ sortOrder' = d.st.ord
         /\ text' = d.st.tx
         /\ last' = [target |-> target, runs |-> d.runs]
  /\ nClicks' = nClicks + 1
  /\ cycle' = nextCycle(target)
  /\ UNCHANGED <<hidden, cellValue, whiteSpace, listeners>>

Next ==
  \/ initTableSortable
  \/ \E target \in Targets : \E alg \in SortAlgorithms : Click(target, alg)

Init == (InitFlat \/ InitMulti) /\ Fresh
Spec == Init /\ [][Next]_vars

\* ============================================================== claims
LastRun == last.runs[Len(last.runs)]
\* the last click ran the handler on a header that has a table
Sorted == last.target \in Headers /\ last.runs # <<>> /\ LastRun.table # None

\* C1: every commit of a header click on key k records desc exactly when
\* the recorded key is k and the recorded order is asc, asc in every other
\* case, and the recorded key becomes k.
C1_ToggleRule ==
  [][(nClicks' = nClicks + 1 /\ last'.target \in Headers
        /\ closest(children, last'.target) # None)
     => LET t == closest(children, last'.target)
            k == HeaderKey(last'.target)
            runs == last'.runs
        IN  /\ Len(runs) = listeners
            /\ runs[1].prevBy = sortedBy[t]
            /\ runs[1].prevOrder = sortOrder[t]
            /\ \A i \in 1..Len(runs) :
                 /\ runs[i].order \in {"asc", "desc"}
                 /\ runs[i].order = "desc"
                      <=> (runs[i].prevBy = k /\ runs[i].prevOrder = "asc")
                 /\ i > 1 => /\ runs[i].prevBy = k
                             /\ runs[i].prevOrder = runs[i - 1].order
            /\ sortOrder'[t] = runs[Len(runs)].order
            /\ sortedBy'[t] = k]_vars

\* a click, handled by one listener, that switched the column of a table
\* whose recorded order was asc, and so committed asc again
C1_Witness ==
  /\ Sorted /\ Len(last.runs) = 1
  /\ LastRun.prevBy \notin {None, LastRun.key}
  /\ LastRun.prevOrder = "asc"
  /\ sortOrder[LastRun.table] = "asc"

\* C2: from no recorded state and with one listener, the k-th consecutive
\* click on one header of a table records asc when k is odd, desc when even.
C2_Alternates ==
  \A t \in Tables :
    (cycle[t].ok /\ cycle[t].n > 0)
      => /\ sortOrder[t] = (IF cycle[t].n % 2 = 1 THEN "asc" ELSE "desc")
         /\ sortedBy[t] = HeaderKey(cycle[t].hdr)

\* three clicks in a row on one header: asc again
C2_Witness ==
  \E t \in Tables : cycle[t].ok /\ cycle[t].n = 3 /\ sortOrder[t] = "asc"

\* C3: the two state attributes of a table are both present or both
\* absent, and an order that is present is asc or desc.
C3_AttributesTogether ==
  \A t \in Tables :
    /\ sortedBy[t] = None <=> sortOrder[t] = None
    /\ sortOrder[t] \in {None, "asc", "desc"}

\* a click whose processing failed part-way (the table has no body) and
\* left both attributes written
C3_Witness ==
  /\ Sorted /\ LastRun.threw
  /\ sortedBy[LastRun.table] = LastRun.key
  /\ sortOrder[LastRun.table] = "asc"

\* the body of a table, and its rows that are not hidden, in body order
BodyOf(t) == querySelector(children, t, Bodies)
VisibleRows(b) == SelectSeq(children[b], LAMBDA r : r \in Rows \ hidden)
\* the last click sorted the rows of a body to the end
Completed == Sorted /\ ~LastRun.threw

\* a row has no value to sort by: no matching cell, or a cell whose raw
\* value is absent or empty
Missing(v) == v.t # "str" \/ v.s = <<>>
Numeric(v) == ~Missing(v) /\ ~StringToNumber(v.s).nan
Textual(v) == ~Missing(v) /\ StringToNumber(v.s).nan
\* v comes no later than w in ascending order
Below(v, w) ==
  IF Numeric(v) THEN StringToNumber(v.s).n <= StringToNumber(w.s).n
  ELSE localeCompare(v.s, w.s) <= 0

C5_Ordered ==
  Completed =>
    LET rows == VisibleRows(BodyOf(LastRun.table))
        v == LastRun.vals
    IN  (\/ \A r \in Range(rows) : Numeric(v[r])
         \/ \A r \in Range(rows) : Textual(v[r]))
        => \A i, j \in 1..Len(rows) :
             i < j => IF LastRun.order = "asc"
                      THEN Below(v[rows[i]], v[rows[j]])
                      ELSE Below(v[rows[j]], v[rows[i]])

\* a desc sort of numeric rows that had to move 10 before 2
C5_Witness ==
  /\ Completed /\ LastRun.order = "desc"
  /\ \A r \in Range(LastRun.rows) : Numeric(LastRun.vals[r])
  /\ LastRun.sorted # LastRun.rows
  /\ \E a, b \in Range(LastRun.rows) :
       LastRun.vals[a].s = <<"1", "0">> /\ LastRun.vals[b].s = <<"2">>

\* C6: for two present values that are both numeric or both strings, the
\* comparator's result under desc is the negation of its result under asc.
C6_Mirror ==
  Completed =>
    \A a, b \in Range(LastRun.rows) :
      LET x == LastRun.vals[a]
          y == LastRun.vals[b]
      IN  ((Numeric(x) /\ Numeric(y)) \/ (Textual(x) /\ Textual(y)))
          => compare(x, y, "desc") = 0 - compare(x, y, "asc")

\* the comparator was applied to two numeric values that differ
C6_Witness ==
  /\ Completed
  /\ \E a, b \in Range(LastRun.rows) :
       /\ Numeric(LastRun.vals[a]) /\ Numeric(LastRun.vals[b])
       /\ compare(LastRun.vals[a], LastRun.vals[b], "asc") < 0

\* the sortable headers of a table: those whose nearest table it is
OwnHeaders(t) == {h \in Headers : closest(children, h) = t}
EndsWith(s, g) == s # <<>> /\ s[Len(s)] = g
GlyphOf(order) == IF order = "asc" THEN "DOWN" ELSE "UP"

\* C7: after a completed sort of a table whose headers have distinct keys,
\* the header of the recorded key ends in the glyph of the recorded order,
\* no other header of the table ends in a glyph, and so exactly one does.
C7_OneIndicator ==
  LET t == LastRun.table
      own == OwnHeaders(t)
  IN  (Completed /\ \A g, h \in own : HeaderKey(g) = HeaderKey(h) => g = h)
      => /\ \A h \in own :
              IF HeaderKey(h) = sortedBy[t]
              THEN EndsWith(text[h], GlyphOf(sortOrder[t]))
              ELSE \A g \in Glyphs : ~EndsWith(text[h], g)
         /\ Cardinality({h \in own : \E g \in Glyphs : EndsWith(text[h], g)})
              = 1

\* a sort by name of a table that was sorted by price: the glyph moved
C7_Witness ==
  /\ Completed /\ LastRun.key = "name" /\ LastRun.prevBy = "price"
  /\ Cardinality(OwnHeaders(LastRun.table)) = 2

\* the step is a click on a header of a table that has a body
SortStep ==
  /\ nClicks' = nClicks + 1
  /\ last'.target \in Headers
  /\ closest(children, last'.target) # None
  /\ BodyOf(closest(children, last'.target)) # None

Before(s, a, b) ==
  \E i, j \in 1..Len(s) : i < j /\ s[i] = a /\ s[j] = b

\* C8 as stated: hidden rows are not handed to the sort, and a click leaves
\* each hidden row before, or behind, every other row of the body as it was.
C8_HiddenInPlace ==
  [][SortStep =>
       LET b == BodyOf(closest(children, last'.target))
       IN  /\ \A i \in 1..Len(last'.runs) :
                Range(last'.runs[i].rows) \cap hidden = {}
           /\ \A h \in Range(children[b]) \cap hidden :
                \A x \in Range(children[b]) \ {h} :
                  Before(children[b], h, x) <=> Before(children'[b], h, x)
    ]_vars

\* C8 as amended: hidden rows are not handed to the sort and keep their
\* order among themselves; the visible rows are moved behind all of them.
C8_HiddenFirst ==
  [][SortStep =>
       LET b == BodyOf(closest(children, last'.target))
           isHidden(r) == r \in hidden
           isVisible(r) == r \notin hidden
       IN  /\ \A i \in 1..Len(last'.runs) :
                Range(last'.runs[i].rows) \cap hidden = {}
           /\ SelectSeq(children'[b], isHidden)
                = SelectSeq(children[b], isHidden)
           /\ children'[b] = SelectSeq(children[b], isHidden)
                             \o SelectSeq(children'[b], isVisible)
    ]_vars

\* a sort of a body with two hidden rows and a visible row between them
C8_Witness ==
  /\ Completed /\ hidden = {"r1", "r3"}
  /\ SubSeq(children["B1"], 1, 2) = <<"r1", "r3">>
  /\ Len(children["B1"]) = 4

\* C9: a click on a header without an enclosing marked table throws
\* nothing and changes nothing on the page.
C9_SilentNoOp ==
  [][(nClicks' = nClicks + 1 /\ last'.target \in Headers
        /\ closest(children, last'.target) = None)
     => /\ \A i \in 1..Len(last'.runs) : ~last'.runs[i].threw
        /\ UNCHANGED <<children, sortedBy, sortOrder, text>>]_vars

\* C10: a click on a header of a table changes no other table's state
\* attributes, header texts or row order.
C10_OtherTablesUntouched ==
  [][(nClicks' = nClicks + 1 /\ last'.target \in Headers
        /\ closest(children, last'.target) # None)
     => \A u \in Tables \ {closest(children, last'.target)} :
          /\ sortedBy'[u] = sortedBy[u]
          /\ sortOrder'[u] = sortOrder[u]
          /\ \A h \in OwnHeaders(u) : text'[h] = text[h]
          /\ BodyOf(u) # None => children'[BodyOf(u)] = children[BodyOf(u)]
    ]_vars

C12_CommittedBeforeFailure ==
  [][(nClicks' = nClicks + 1 /\ last'.target \in Headers
        /\ closest(children, last'.target) # None
        /\ BodyOf(closest(children, last'.target)) = None)
     => LET t == closest(children, last'.target)
            k == HeaderKey(last'.target)
            runs == last'.runs
        IN  /\ runs[1].prevBy = sortedBy[t]
            /\ runs[1].prevOrder = sortOrder[t]
            /\ \A i \in 1..Len(runs) :
                 /\ runs[i].threw
                 /\ runs[i].steps # <<>> /\ Head(runs[i].steps) = "state"
                 /\ \A j \in 1..Len(runs[i].steps) :
                      runs[i].steps[j] \notin {"sort", "append"}
                 /\ runs[i].order =
                      IF runs[i].prevBy = k /\ runs[i].prevOrder = "asc"
                      THEN "desc" ELSE "asc"
            /\ sortedBy'[t] = k
            /\ sortOrder'[t] = runs[Len(runs)].order
            /\ children' = children
    ]_vars

\* the second of two clicks on the header of a table without a body: the
\* first left asc, the second read it and left desc
C12_Witness ==
  /\ Sorted /\ LastRun.threw /\ Len(last.runs) = 1
  /\ cycle[LastRun.table].n = 2 /\ cycle[LastRun.table].ok
  /\ LastRun.prevBy = LastRun.key /\ LastRun.prevOrder = "asc"
  /\ sortOrder[LastRun.table] = "desc"

\* C13: in each direction the comparator is a strict weak ordering of the
\* values it is applied to: "less" is irreflexive, asymmetric and
\* transitive, and "ties with" is transitive.
C13_StrictWeakOrder ==
  Completed =>
    \A order \in {"asc", "desc"} :
      LET v == LastRun.vals
          less(a, b) == compare(v[a], v[b], order) < 0
          ties(a, b) == compare(v[a], v[b], order) = 0
      IN  \A a, b, c \in Range(LastRun.rows) :
            /\ ~less(a, a)
            /\ less(a, b) => ~less(b, a)
            /\ (less(a, b) /\ less(b, c)) => less(a, c)
            /\ (ties(a, b) /\ ties(b, c)) => ties(a, c)

\* C14: a step that changes the number of listeners adds exactly one,
\* whatever the number was; a click on a header runs the handler once per
\* listener; and on a table without recorded state the i-th run records
\* asc when i is odd and desc when i is even, so two listeners leave desc.
C14_OncePerListener ==
  [][/\ listeners' # listeners => listeners' = listeners + 1
     /\ (nClicks' = nClicks + 1 /\ last'.target \in Headers)
          => /\ Len(last'.runs) = listeners
             /\ \A t \in Tables :
                  (t = closest(children, last'.target) /\ sortedBy[t] = None
                     /\ sortOrder[t] = None)
                  => /\ \A i \in 1..Len(last'.runs) :
                          last'.runs[i].order =
                            IF i % 2 = 1 THEN "asc" ELSE "desc"
                     /\ listeners = 2 => sortOrder'[t] = "desc"
    ]_vars

\* initTableSortable was called twice, and one click on a header of a
\* table without recorded state ran the handler twice: asc, then desc
C14_Witness ==
  /\ listeners = 2 /\ nClicks = 1 /\ Completed
  /\ Len(last.runs) = 2
  /\ last.runs[1].prevBy = None /\ last.runs[1].order = "asc"
  /\ last.runs[2].prevOrder = "asc" /\ last.runs[2].order = "desc"
  /\ sortOrder[LastRun.table] = "desc"

\* C15: a click on a header of a table with a body hands to the sort
\* exactly the rows that are children of the body and not hidden, in body
\* order, and a row that is not a child of the body keeps its parent.
C15_DirectRowsOnly ==
  [][SortStep =>
       LET b == BodyOf(closest(children, last'.target))
       IN  /\ last'.runs[1].rows = VisibleRows(b)
           /\ \A i \in 1..Len(last'.runs) :
                /\ Range(last'.runs[i].rows) = Range(VisibleRows(b))
                /\ DOMAIN last'.runs[i].vals = Range(VisibleRows(b))
           /\ \A r \in Rows :
                Parent(children, r) # b
                  => Parent(children', r) = Parent(children, r)
    ]_vars

\* every row below the body is a child of the body
AllDirect(b) == Range(querySelectorAll(children, b, Rows)) = Range(children[b])

\* C16: a click changes neither the set nor the number of the rows of a
\* body whose rows are all children of it, and when the click sorted that
\* body, its rows that are not hidden stand together at its end.
C16_RowsPermuted ==
  [][nClicks' = nClicks + 1 =>
       \A b \in Bodies \cap Attached :
         AllDirect(b) =>
           /\ Range(children'[b]) = Range(children[b])
           /\ Len(children'[b]) = Len(children[b])
           /\ (SortStep /\ b = BodyOf(closest(children, last'.target)))
                => \A i, j \in 1..Len(children'[b]) :
                     (i < j /\ children'[b][i] \notin hidden)
                       => children'[b][j] \notin hidden
    ]_vars

\* the text a header has before the first click (InitFlat, InitMulti; the
\* header h0 is attached on the pages of InitMulti only)
OriginalText(h) ==
  IF h # "hN1" THEN <<"P">>
  ELSE IF "h0" \in Attached THEN <<"N", "SP", "UP">> ELSE <<"N">>

\* C17: the text every header of a table shows is its original text,
\* followed by a space and the glyph of the recorded order when the header
\* has the recorded key, and by nothing when it has not.
C17_NoAccumulation ==
  \A h \in Headers \cap Attached :
    LET t == closest(children, h)
    IN  t # None =>
          innerText(text[h], whiteSpace) =
            OriginalText(h)
            \o (IF sortedBy[t] = HeaderKey(h)
                THEN <<"SP", GlyphOf(sortOrder[t])>> ELSE <<>>)

====
